---- MODULE Spec2Model ----
(***************************************************************************)
(* Model of the Capella raster cataloguing scripts:                        *)
(*   code/01_create_stac.py  - the browsing pipeline (STAC catalog)        *)
(*   code/03_test_dataset.py - the indexing pipeline (ODC dataset index)   *)
(* Text is modelled as sequences of one-character strings so that split,   *)
(* substring search and strptime are computed, not assumed.                *)
(***************************************************************************)
EXTENDS Integers, Sequences, FiniteSets, TLC

(***************************************************************************)
(* Bounds of the model.                                                    *)
(***************************************************************************)
\* number of files the input directory may hold
MaxFiles == 2
\* number of distinct values uuid.uuid4() may return
MaxUuid == 2
\* number of ticks the wall clock may advance during a run
MaxClock == 1
\* number of times the indexing script is run against the same index
MaxRuns == 2

(***************************************************************************)
(* Text helpers.                                                           *)
(***************************************************************************)
\* Python's None (and, for text, the empty string: both are falsy)
None == <<>>

Digits == <<"0", "1", "2", "3", "4", "5", "6", "7", "8", "9">>

IsDigit(c) == \E ix \in 1..10 : Digits[ix] = c

DigitVal(c) == (CHOOSE ix \in 1..10 : Digits[ix] = c) - 1

\* the index of the last occurrence of c in s, or 0
LastIndexOf(s, c) ==
    IF \E ix \in 1..Len(s) : s[ix] = c
    THEN CHOOSE ix \in 1..Len(s) : s[ix] = c /\ \A j \in (ix+1)..Len(s) : s[j] # c
    ELSE 0

\* the index of the first occurrence of c in s at or after from, or 0
IndexFrom(s, c, from) ==
    IF \E ix \in from..Len(s) : s[ix] = c
    THEN CHOOSE ix \in from..Len(s) : s[ix] = c /\ \A j \in from..(ix-1) : s[j] # c
    ELSE 0

\* pat in s  (Python substring test)
Contains(s, pat) ==
    \E ix \in 1..(Len(s) - Len(pat) + 1) : SubSeq(s, ix, ix + Len(pat) - 1) = pat

\* s.split(sep) for a one-character separator
RECURSIVE SplitFrom(_, _, _)
SplitFrom(s, sep, from) ==
    LET ix == IndexFrom(s, sep, from)
    IN  IF ix = 0
        THEN <<SubSeq(s, from, Len(s))>>
        ELSE <<SubSeq(s, from, ix - 1)>> \o SplitFrom(s, sep, ix + 1)

Split(s, sep) == SplitFrom(s, sep, 1)

\* os.path.basename: what follows the last path separator
Basename(path) == SubSeq(path, LastIndexOf(path, "\\") + 1, Len(path))

\* os.path.splitext(name)[0]: the extension starts at the last dot, unless
\* only dots precede it
SplitExtStem(name) ==
    LET ix == LastIndexOf(name, ".")
    IN  IF ix > 1 /\ \E j \in 1..(ix-1) : name[j] # "."
        THEN SubSeq(name, 1, ix - 1)
        ELSE name

\* Python negative indexing parts[-k]; IndexError when the list is shorter
HasFromEnd(parts, k) == Len(parts) >= k

FromEnd(parts, k) == parts[Len(parts) - k + 1]

(***************************************************************************)
(* datetime.strptime, as the regular expression _strptime builds from the  *)
(* format: %Y is four digits; %m %d %H %M %S prefer their two-digit        *)
(* alternatives and fall back to one digit; a blank in the format matches  *)
(* one or more blanks; the match must consume the whole string; the fields *)
(* must then form a valid datetime.                                        *)
(***************************************************************************)
Directives == {"%Y", "%m", "%d", "%H", "%M", "%S"}

FieldDefaults == [k \in Directives |-> IF k = "%Y" THEN 1900 ELSE IF k \in {"%m", "%d"} THEN 1 ELSE 0]

NoMatch == [ok |-> FALSE, end |-> 0, val |-> FieldDefaults]

One(s, pos) == IF pos <= Len(s) /\ IsDigit(s[pos]) THEN DigitVal(s[pos]) ELSE -1

Two(s, pos) ==
    IF pos + 1 <= Len(s) /\ IsDigit(s[pos]) /\ IsDigit(s[pos + 1])
    THEN 10 * DigitVal(s[pos]) + DigitVal(s[pos + 1])
    ELSE -1

Four(s, pos) ==
    IF pos + 3 <= Len(s) /\ \A ix \in pos..(pos + 3) : IsDigit(s[ix])
    THEN 1000 * DigitVal(s[pos]) + 100 * DigitVal(s[pos + 1])
         + 10 * DigitVal(s[pos + 2]) + DigitVal(s[pos + 3])
    ELSE -1

\* the values the two-character alternatives of a directive accept
Range2(t) ==
    CASE t = "%m" -> 1..12
      [] t = "%d" -> 1..31
      [] t = "%H" -> 0..23
      [] t = "%M" -> 0..59
      [] t = "%S" -> 0..61

\* the values the one-character alternative of a directive accepts
Range1(t) == IF t \in {"%m", "%d"} THEN 1..9 ELSE 0..9

\* the number of blanks in s starting at pos
RECURSIVE SpaceRun(_, _)
SpaceRun(s, pos) ==
    IF pos <= Len(s) /\ s[pos] = " " THEN 1 + SpaceRun(s, pos + 1) ELSE 0

RECURSIVE ReMatch(_, _, _, _)
RECURSIVE ReSpaces(_, _, _, _, _)
\* \s+ is greedy: the longest run first, then shorter ones
ReSpaces(s, pos, n, rest, acc) ==
    IF n < 1
    THEN NoMatch
    ELSE LET r == ReMatch(s, pos + n, rest, acc)
         IN  IF r.ok THEN r ELSE ReSpaces(s, pos, n - 1, rest, acc)

ReMatch(s, pos, fmt, acc) ==
    IF fmt = <<>>
    THEN [ok |-> TRUE, end |-> pos, val |-> acc]
    ELSE LET t == Head(fmt)
             rest == Tail(fmt)
             Try(len, v) == ReMatch(s, pos + len, rest, [acc EXCEPT ![t] = v])
         IN  CASE t = "%Y" ->
                    IF Four(s, pos) >= 0 THEN Try(4, Four(s, pos)) ELSE NoMatch
               [] t \in Directives \ {"%Y"} ->
                    LET a2 == IF Two(s, pos) \in Range2(t)
                              THEN Try(2, Two(s, pos)) ELSE NoMatch
                        a1 == IF One(s, pos) \in Range1(t)
                              THEN Try(1, One(s, pos)) ELSE NoMatch
                        a3 == IF t = "%d" /\ pos <= Len(s) /\ s[pos] = " "
                                 /\ One(s, pos + 1) \in 1..9
                              THEN Try(2, One(s, pos + 1)) ELSE NoMatch
                    IN  IF a2.ok THEN a2 ELSE IF a1.ok THEN a1 ELSE a3
               [] t = " " -> ReSpaces(s, pos, SpaceRun(s, pos), rest, acc)
               [] OTHER ->
                    IF pos <= Len(s) /\ s[pos] = t
                    THEN ReMatch(s, pos + 1, rest, acc)
                    ELSE NoMatch

IsLeap(y) == (y % 4 = 0 /\ y % 100 # 0) \/ y % 400 = 0

DaysInMonth(y, m) ==
    IF m = 2 THEN (IF IsLeap(y) THEN 29 ELSE 28)
    ELSE IF m \in {4, 6, 9, 11} THEN 30 ELSE 31

\* a datetime is the tuple <<year, month, day, hour, minute, second>>
MkDatetime(v) == <<v["%Y"], v["%m"], v["%d"], v["%H"], v["%M"], v["%S"]>>

\* [ok |-> FALSE] stands for the ValueError strptime raises
Strptime(s, fmt) ==
    LET r == ReMatch(s, 1, fmt, FieldDefaults)
    IN  IF r.ok /\ r.end = Len(s) + 1
           /\ r.val["%Y"] >= 1
           /\ r.val["%d"] <= DaysInMonth(r.val["%Y"], r.val["%m"])
           /\ r.val["%S"] <= 59
        THEN [ok |-> TRUE, dt |-> MkDatetime(r.val)]
        ELSE [ok |-> FALSE, dt |-> <<>>]

\* '%Y:%m:%d %H:%M:%S'
TagFormat == <<"%Y", ":", "%m", ":", "%d", " ", "%H", ":", "%M", ":", "%S">>

\* '%Y%m%d%H%M%S'
FilenameFormat == <<"%Y", "%m", "%d", "%H", "%M", "%S">>

\* the order of datetimes
DtLess(a, b) ==
    \E ix \in 1..6 : a[ix] < b[ix] /\ \A j \in 1..(ix-1) : a[j] = b[j]

DtLeq(a, b) == a = b \/ DtLess(a, b)


\* datetime.isoformat(): YYYY-MM-DDTHH:MM:SS
RECURSIVE Pad(_, _)
Pad(n, w) == IF w = 0 THEN <<>> ELSE Pad(n \div 10, w - 1) \o <<Digits[(n % 10) + 1]>>

Isoformat(dt) ==
    Pad(dt[1], 4) \o <<"-">> \o Pad(dt[2], 2) \o <<"-">> \o Pad(dt[3], 2) \o <<"T">>
    \o Pad(dt[4], 2) \o <<":">> \o Pad(dt[5], 2) \o <<":">> \o Pad(dt[6], 2)

(***************************************************************************)
(* The input directory.  A raster file is what rasterio reports of it:     *)
(* whether it opens, its native spatial reference (NoCrs when null), its   *)
(* bounds, shape and affine transform in that reference, its tag map, and  *)
(* what rasterio.warp returns when asked for EPSG:4326.                    *)
(***************************************************************************)
NoCrs == "None"

CanonicalCrs == "EPSG:4326"

UtmCrs == "EPSG:32651"

\* COG_ROOT / IMAGE_DIR, kept as one element of the path text
CogRoot == <<"D:\\Capalla_data\\cog_files", "\\">>

Us == <<"_">>

DotTif == <<".", "t", "ix", "f">>

GEC == <<"G", "E", "C">>

GEO == <<"G", "E", "O">>

HH == <<"H", "H">>

VV == <<"V", "V">>

Preview == <<"p", "r", "e", "v", "ix", "e", "w">>

\* 20230101000000
StampA == <<"2", "0", "2", "3", "0", "1", "0", "1", "0", "0", "0", "0", "0", "0">>

\* 20230101000010
StampEnd == <<"2", "0", "2", "3", "0", "1", "0", "1", "0", "0", "0", "0", "1", "0">>

\* 20240229235959
StampB == <<"2", "0", "2", "4", "0", "2", "2", "9", "2", "3", "5", "9", "5", "9">>

\* '2022:06:15 12:30:00'
TagValid == <<"2", "0", "2", "2", ":", "0", "6", ":", "1", "5", " ",
              "1", "2", ":", "3", "0", ":", "0", "0">>

\* '2022-06-15T12:30:00'
TagMalformed == <<"2", "0", "2", "2", "-", "0", "6", "-", "1", "5", "T",
                  "1", "2", ":", "3", "0", ":", "0", "0">>

NoTags == [k \in {} |-> <<>>]

OnlyTiffTag(v) == [k \in {"TIFFTAG_DATETIME"} |-> v]

BothTags(v, w) == [k \in {"TIFFTAG_DATETIME", "DATETIME"} |-> IF k = "DATETIME" THEN w ELSE v]

Name(first, kind, pol, rest) ==
    <<first>> \o Us \o kind \o Us \o pol \o Us \o rest \o DotTif

\* the k-th raster: bounds <<left, bottom, right, top>>, north-up transform
Raster(name, opens, crs, warpOk, tags, k) ==
    [path |-> CogRoot \o name,
     opens |-> opens,
     crs |-> crs,
     bounds |-> <<k, 10 - k, k + 1, 11 - k>>,
     shape |-> <<2, 3>>,
     transform |-> <<1, 0, k, 0, -1, 11 - k>>,
     tags |-> tags,
     warp |-> [ok |-> warpOk, bounds |-> <<k + 100, 30 - k, k + 101, 31 - k>>]]

Pool ==
    << \* X_GEC_HH_20230101000000.tif
       Raster(Name("X", GEC, HH, StampA), TRUE, CanonicalCrs, TRUE, NoTags, 1),
       \* X_GEC_HH_20230101000000_20230101000010.tif, UTM
       Raster(Name("X", GEC, HH, StampA \o Us \o StampEnd), TRUE, UtmCrs, TRUE, NoTags, 2),
       \* Y_GEC_VV_20240229235959_20230101000010.tif, TIFFTAG_DATETIME valid
       Raster(Name("Y", GEC, VV, StampB \o Us \o StampEnd), TRUE, CanonicalCrs, TRUE,
              OnlyTiffTag(TagValid), 3),
       \* Z_GEC_VV_..., TIFFTAG_DATETIME malformed, DATETIME valid
       Raster(Name("Z", GEC, VV, StampB \o Us \o StampEnd), TRUE, CanonicalCrs, TRUE,
              BothTags(TagMalformed, TagValid), 4),
       \* E_GEC_HH_..., TIFFTAG_DATETIME empty, DATETIME valid
       Raster(Name("E", GEC, HH, StampB \o Us \o StampEnd), TRUE, UtmCrs, TRUE,
              BothTags(<<>>, TagValid), 5),
       \* S_GEC_HH_..., no spatial reference
       Raster(Name("S", GEC, HH, StampA \o Us \o StampEnd), TRUE, NoCrs, TRUE,
              OnlyTiffTag(TagValid), 6),
       \* N_GEC_HH_preview.tif, no timestamp anywhere
       Raster(Name("N", GEC, HH, Preview), TRUE, CanonicalCrs, TRUE, NoTags, 7),
       \* M_GEC_VV_xx_yy.tif, no timestamp anywhere, reprojection fails
       Raster(Name("M", GEC, VV, <<"x">> \o Us \o <<"y">>), TRUE, UtmCrs, FALSE,
              OnlyTiffTag(TagMalformed), 8),
       \* B_GEC_HH_..., does not open
       Raster(Name("B", GEC, HH, StampA \o Us \o StampEnd), FALSE, CanonicalCrs, TRUE,
              NoTags, 9),
       \* P_GEC_HH_20230101000000_20230101000010_preview.tif
       Raster(Name("P", GEC, HH, StampA \o Us \o StampEnd \o Us \o Preview), TRUE,
              CanonicalCrs, TRUE, NoTags, 10),
       \* W_GEO_HH_..., no product marker
       Raster(Name("W", GEO, HH, StampA \o Us \o StampEnd), TRUE, CanonicalCrs, TRUE,
              NoTags, 11) >>

\* what glob may return: up to MaxFiles distinct files, in directory order
FileLists ==
    LET picks == UNION {[1..n -> 1..Len(Pool)] : n \in 0..MaxFiles}
    IN  {[k \in DOMAIN s |-> Pool[s[k]]] :
            s \in {t \in picks : \A a, b \in DOMAIN t : a < b => t[a] < t[b]}}


(***************************************************************************)
(* Footprints.                                                             *)
(***************************************************************************)
\* shapely box(left, bottom, right, top) as its mapping(): the closed ring
Box(b) == << <<b[3], b[2]>>, <<b[3], b[4]>>, <<b[1], b[4]>>, <<b[1], b[2]>>, <<b[3], b[2]>> >>

(***************************************************************************)
(* The timestamp steps shared by both scripts.                             *)
(***************************************************************************)
\* tags.get(key)
TagGet(tags, key) == IF key \in DOMAIN tags THEN tags[key] ELSE None

\* a or b
PyOr(a, b) == IF a # None THEN a ELSE b

\* the tag step: the datetime read from the tags, or None
TagDatetime(f) ==
    LET dt_str == PyOr(TagGet(f.tags, "TIFFTAG_DATETIME"), TagGet(f.tags, "DATETIME"))
        r == Strptime(dt_str, TagFormat)
    IN  IF dt_str # None /\ r.ok THEN r.dt ELSE None

\* faulty variant of the filename step: always the last token
FilenameDatetime_LastToken(item_id) ==
    LET parts == Split(item_id, "_")
        r == Strptime(FromEnd(parts, 1), FilenameFormat)
    IN  IF r.ok THEN r.dt ELSE None

\* the filename step: the datetime read from the item id, or None
FilenameDatetime(item_id) ==
    LET parts == Split(item_id, "_")
        k == IF FromEnd(parts, 1) = Preview THEN 3 ELSE 2
        r == Strptime(FromEnd(parts, k), FilenameFormat)
    IN  IF HasFromEnd(parts, k) /\ r.ok THEN r.dt ELSE None

\* the wall clock after k ticks
Now(k) == <<2026, 11, 3, 0, 0, k>>

(***************************************************************************)
(* 03_test_dataset.py : get_metadata_from_tif and build_eo3_dict           *)
(***************************************************************************)
GecHhMarker == Us \o GEC \o Us \o HH \o Us

GecVvMarker == Us \o GEC \o Us \o VV \o Us

\* faulty variant: the null spatial reference is not rejected
GetMetadataFromTif_NoCrsCheck(f) ==
    LET item_id == SplitExtStem(Basename(f.path))
        tag_dt == TagDatetime(f)
        item_datetime == IF tag_dt # None THEN tag_dt ELSE FilenameDatetime(item_id)
        hh == Contains(item_id, GecHhMarker)
    IN  IF ~f.opens THEN None
        ELSE IF f.crs \notin {NoCrs, CanonicalCrs} /\ ~f.warp.ok THEN None
        ELSE IF item_datetime = None THEN None
        ELSE IF ~hh /\ ~Contains(item_id, GecVvMarker) THEN None
        ELSE [id |-> item_id,
              datetime |-> item_datetime,
              geometry |-> IF f.crs = UtmCrs THEN Box(f.warp.bounds) ELSE Box(f.bounds),
              product_name |-> IF hh THEN "capella_gec_hh" ELSE "capella_gec_vv",
              band_name |-> IF hh THEN "hh" ELSE "vv",
              shape |-> f.shape,
              transform |-> f.transform]

GetMetadataFromTif(f) ==
    LET filename == Basename(f.path)
        item_id == SplitExtStem(filename)
        geom_wgs84 == IF f.crs # CanonicalCrs THEN Box(f.warp.bounds) ELSE Box(f.bounds)
        tag_dt == TagDatetime(f)
        item_datetime == IF tag_dt # None THEN tag_dt ELSE FilenameDatetime(item_id)
        p_name == IF Contains(item_id, GecHhMarker) THEN "capella_gec_hh"
                  ELSE IF Contains(item_id, GecVvMarker) THEN "capella_gec_vv" ELSE "None"
        b_name == IF Contains(item_id, GecHhMarker) THEN "hh" ELSE "vv"
    IN  IF ~f.opens THEN None
        ELSE IF f.crs = NoCrs THEN None
        ELSE IF f.crs # CanonicalCrs /\ ~f.warp.ok THEN None
        ELSE IF item_datetime = None THEN None
        ELSE IF p_name = "None" THEN None
        ELSE [id |-> item_id,
              datetime |-> item_datetime,
              geometry |-> geom_wgs84,
              product_name |-> p_name,
              band_name |-> b_name,
              shape |-> f.shape,
              transform |-> f.transform]

\* Path(os.path.abspath(path)).as_uri(); the paths globbed are absolute
AsUri(path) == <<"file:///">> \o [k \in 1..Len(path) |-> IF path[k] = "\\" THEN "/" ELSE path[k]]

BuildEo3Dict(metadata, tif_path, dataset_uuid, now) ==
    [id |-> dataset_uuid,
     product |-> [name |-> metadata.product_name],
     label |-> metadata.id,
     location |-> AsUri(tif_path),
     crs |-> CanonicalCrs,
     properties |-> [processing_datetime |-> Isoformat(now),
                     datetime |-> Isoformat(metadata.datetime),
                     filename |-> metadata.id],
     geometry |-> metadata.geometry,
     grids |-> [shape |-> metadata.shape,
                transform |-> metadata.transform,
                crs |-> CanonicalCrs],
     measurements |-> [band |-> metadata.band_name, path |-> Basename(tif_path)],
     lineage |-> <<>>]

\* os.path.join(ODC_DATASET_DIR, f"ds_{meta['id']}.yaml")
YamlPath(metadata) == <<"odc_datasets", "\\", "d", "s", "_">> \o metadata.id \o <<".", "y", "a", "m", "l">>

(***************************************************************************)
(* 01_create_stac.py : get_stac_info_from_tif, the item and the extent     *)
(***************************************************************************)
\* faulty variant: no wall-clock step, an undated file raises
GetStacInfoFromTif_NoClockFallback(f, now) ==
    LET item_id == SplitExtStem(Basename(f.path))
        tag_dt == TagDatetime(f)
        name_dt == IF tag_dt # None THEN tag_dt ELSE FilenameDatetime(item_id)
    IN  IF ~f.opens THEN [outcome |-> "raise"]
        ELSE IF f.crs = NoCrs THEN [outcome |-> "skip"]
        ELSE IF f.crs # CanonicalCrs /\ ~f.warp.ok THEN [outcome |-> "raise"]
        ELSE IF name_dt = None THEN [outcome |-> "raise"]
        ELSE [outcome |-> "ok",
              item_id |-> item_id,
              item_datetime |-> name_dt,
              bbox_wgs84 |-> IF f.crs # CanonicalCrs THEN f.warp.bounds ELSE f.bounds,
              geom_wgs84 |-> IF f.crs # CanonicalCrs THEN Box(f.warp.bounds) ELSE Box(f.bounds),
              read_clock |-> FALSE]

\* outcome "raise": an exception leaves the function; "skip": the four Nones
GetStacInfoFromTif(f, now) ==
    LET filename == Basename(f.path)
        item_id == SplitExtStem(filename)
        bbox_wgs84 == IF f.crs # CanonicalCrs THEN f.warp.bounds ELSE f.bounds
        geom_wgs84 == IF f.crs # CanonicalCrs THEN Box(f.warp.bounds) ELSE Box(f.bounds)
        tag_dt == TagDatetime(f)
        name_dt == IF tag_dt # None THEN tag_dt ELSE FilenameDatetime(item_id)
        item_datetime == IF name_dt # None THEN name_dt ELSE now
    IN  IF ~f.opens THEN [outcome |-> "raise"]
        ELSE IF f.crs = NoCrs THEN [outcome |-> "skip"]
        ELSE IF f.crs # CanonicalCrs /\ ~f.warp.ok THEN [outcome |-> "raise"]
        ELSE [outcome |-> "ok",
              item_id |-> item_id,
              item_datetime |-> item_datetime,
              bbox_wgs84 |-> bbox_wgs84,
              geom_wgs84 |-> geom_wgs84,
              read_clock |-> (name_dt = None)]

AssetRoles(filename) ==
    IF Contains(filename, Preview) THEN {"thumbnail"}
    ELSE IF Contains(filename, GEC) \/ Contains(filename, GEO) THEN {"data", "visual"}
    ELSE {"data"}

\* pystac.Item(...) with its "data" asset
MakeItem(info, tif_path) ==
    [id |-> info.item_id,
     geometry |-> info.geom_wgs84,
     bbox |-> info.bbox_wgs84,
     datetime |-> info.item_datetime,
     asset |-> [href |-> tif_path, roles |-> AssetRoles(Basename(tif_path))]]

SetMin(S) == CHOOSE x \in S : \A y \in S : x <= y

SetMax(S) == CHOOSE x \in S : \A y \in S : y <= x

DtMin(S) == CHOOSE x \in S : \A y \in S : DtLeq(x, y)

DtMax(S) == CHOOSE x \in S : \A y \in S : DtLeq(y, x)

\* faulty variant: the placeholder box [0, 0, 0, 0] takes part in the union
ExtentFromItems_WithPlaceholder(items) ==
    LET n == Len(items)
        col(c) == {items[k].bbox[c] : k \in 1..n} \cup {0}
        dts == {items[k].datetime : k \in 1..n}
    IN  IF n = 0
        THEN [bboxes |-> <<0, 0, 0, 0>>, interval |-> <<None, None>>]
        ELSE [bboxes |-> <<SetMin(col(1)), SetMin(col(2)), SetMax(col(3)), SetMax(col(4))>>,
              interval |-> <<DtMin(dts), DtMax(dts)>>]

\* pystac Extent.from_items: the union box and the [min, max] interval; with
\* no item the box keeps its infinite seeds and the interval is open
ExtentFromItems(items) ==
    LET n == Len(items)
        col(c) == {items[k].bbox[c] : k \in 1..n}
        dts == {items[k].datetime : k \in 1..n}
    IN  IF n = 0
        THEN [bboxes |-> <<"inf", "inf", "-inf", "-inf">>, interval |-> <<None, None>>]
        ELSE [bboxes |-> <<SetMin(col(1)), SetMin(col(2)), SetMax(col(3)), SetMax(col(4))>>,
              interval |-> <<DtMin(dts), DtMax(dts)>>]


(***************************************************************************)
(* State.                                                                  *)
(***************************************************************************)
VARIABLES
    mode,           \* which script runs: "browsing" (01) or "indexing" (03)
    tif_files,      \* what glob returns
    pc,             \* position in the script
    i,              \* number of files the loop has taken
    tif,            \* the loop variable (tif_path / tif): the file in hand
    clock,          \* ticks of the wall clock
    exitCode,       \* exit status of the process, -1 while it runs
    collection,     \* 01: the pystac collection: items and extent
    extentUpdates,  \* 01: calls of update_extent_from_items
    normalized,     \* 01: catalog.normalize_hrefs was called
    saved,          \* 01: catalog.save was called
    verified,       \* the read-back step was entered
    products,       \* 03: product names registered in the index
    index,          \* 03: dataset records of the index: [id, location]
    datasetDir,     \* 03: ODC_DATASET_DIR: yaml path -> document
    success_count,  \* 03
    meta,           \* 03: result of get_metadata_from_tif
    doc_dict,       \* 03: result of build_eo3_dict
    calls,          \* 03: per run and file, the index calls made and their outcome
    summary,        \* 03: the count the final summary printed, or None
    run             \* 03: how many times the script was started

vars == <<mode, tif_files, pc, i, tif, clock, exitCode, collection, extentUpdates,
          normalized, saved, verified, products, index, datasetDir, success_count,
          meta, doc_dict, calls, summary, run>>

browsingVars == <<collection, extentUpdates, normalized, saved>>

indexingVars == <<products, index, datasetDir, success_count, meta, doc_dict, calls,
                  summary, run>>

ProductNames == {"capella_gec_hh", "capella_gec_vv"}

\* the placeholder extent of the collection
PlaceholderExtent(t1, t2) == [bboxes |-> <<0, 0, 0, 0>>, interval |-> <<t1, t2>>]

\* the values a later reading of the clock may give
Later(c) == {d \in c..(c + 1) : d <= MaxClock}

Init ==
    /\ mode \in {"browsing", "indexing"}
    /\ tif_files \in FileLists
    /\ pc = "start"
    /\ i = 0
    /\ tif = None
    /\ clock = 0
    /\ exitCode = -1
    /\ collection = None
    /\ extentUpdates = 0
    /\ normalized = FALSE
    /\ saved = FALSE
    /\ verified = FALSE
    /\ products = {}
    /\ index = {}
    /\ datasetDir = [p \in {} |-> None]
    /\ success_count = 0
    /\ meta = None
    /\ doc_dict = None
    /\ calls = [r \in 1..MaxRuns |-> [k \in 1..Len(tif_files) |-> <<>>]]
    /\ summary = None
    /\ run = 1

(***************************************************************************)
(* 01_create_stac.py                                                       *)
(***************************************************************************)
\* lines 104-117: the catalog and the collection with its placeholder extent
BrwCreate ==
    /\ mode = "browsing" /\ pc = "start"
    /\ \E c1 \in Later(clock) :
          /\ collection' = [items |-> <<>>, extent |-> PlaceholderExtent(Now(clock), Now(c1))]
          /\ clock' = c1
    /\ pc' = "glob"
    /\ UNCHANGED <<mode, tif_files, i, tif, exitCode, extentUpdates, normalized, saved,
                   verified>>
    /\ UNCHANGED indexingVars

\* lines 122-126: glob; SystemExit(message) when nothing matches
BrwGlob ==
    /\ mode = "browsing" /\ pc = "glob"
    /\ IF tif_files = <<>>
       THEN pc' = "exit" /\ exitCode' = 1
       ELSE pc' = "loop" /\ exitCode' = exitCode
    /\ UNCHANGED <<mode, tif_files, i, tif, clock, verified>>
    /\ UNCHANGED browsingVars
    /\ UNCHANGED indexingVars

\* lines 128-175: one turn of the loop; every exception is caught and printed
BrwFile ==
    /\ mode = "browsing" /\ pc = "loop" /\ i < Len(tif_files)
    /\ LET f == tif_files[i + 1]
           info == GetStacInfoFromTif(f, Now(clock))
       IN  /\ tif' = f
           /\ i' = i + 1
           /\ IF info.outcome = "ok"
              THEN /\ collection' = [collection EXCEPT
                                       !.items = Append(@, MakeItem(info, f.path))]
                   /\ clock' \in (IF info.read_clock THEN Later(clock) ELSE {clock})
              ELSE UNCHANGED <<collection, clock>>
    /\ UNCHANGED <<mode, tif_files, pc, exitCode, extentUpdates, normalized, saved, verified>>
    /\ UNCHANGED indexingVars

\* line 181: collection.update_extent_from_items()
BrwUpdateExtent ==
    /\ mode = "browsing" /\ pc = "loop" /\ i = Len(tif_files)
    /\ collection' = [collection EXCEPT !.extent = ExtentFromItems(collection.items)]
    /\ extentUpdates' = extentUpdates + 1
    /\ pc' = "normalize"
    /\ UNCHANGED <<mode, tif_files, i, tif, clock, exitCode, normalized, saved, verified>>
    /\ UNCHANGED indexingVars

\* line 185: catalog.normalize_hrefs(ROOT_DIR)
BrwNormalize ==
    /\ mode = "browsing" /\ pc = "normalize"
    /\ normalized' = TRUE
    /\ pc' = "save"
    /\ UNCHANGED <<mode, tif_files, i, tif, clock, exitCode, collection, extentUpdates,
                   saved, verified>>
    /\ UNCHANGED indexingVars

\* line 189: catalog.save(...)
BrwSave ==
    /\ mode = "browsing" /\ pc = "save"
    /\ saved' = TRUE
    /\ pc' = "verify"
    /\ UNCHANGED <<mode, tif_files, i, tif, clock, exitCode, collection, extentUpdates,
                   normalized, verified>>
    /\ UNCHANGED indexingVars

\* lines 194-210: the read-back, in its own try; the script then ends
BrwVerify ==
    /\ mode = "browsing" /\ pc = "verify"
    /\ verified' = TRUE
    /\ pc' = "done"
    /\ exitCode' = 0
    /\ UNCHANGED <<mode, tif_files, i, tif, clock>>
    /\ UNCHANGED browsingVars
    /\ UNCHANGED indexingVars


(***************************************************************************)
(* 03_test_dataset.py : main                                               *)
(***************************************************************************)
\* the call recorded for the file in hand
Called(what) == [calls EXCEPT ![run][i] = Append(@, what)]

\* lines 173-189: datacube system init and product add through run_command,
\* which ignores a failing command: the products may stay unregistered
IdxSetup ==
    /\ mode = "indexing" /\ pc = "start"
    /\ \E added \in {{}, ProductNames} : products' = products \cup added
    /\ pc' = "glob"
    /\ UNCHANGED <<mode, tif_files, i, tif, clock, exitCode, verified>>
    /\ UNCHANGED <<index, datasetDir, success_count, meta, doc_dict, calls, summary, run>>
    /\ UNCHANGED browsingVars

\* lines 192-199: glob; main prints and returns when nothing matches, and the
\* script then ends normally
IdxGlob ==
    /\ mode = "indexing" /\ pc = "glob"
    /\ IF tif_files = <<>>
       THEN pc' = "done" /\ exitCode' = 0 /\ success_count' = success_count
       ELSE pc' = "loop" /\ exitCode' = exitCode /\ success_count' = 0
    /\ UNCHANGED <<mode, tif_files, i, tif, clock, verified>>
    /\ UNCHANGED <<products, index, datasetDir, meta, doc_dict, calls, summary, run>>
    /\ UNCHANGED browsingVars

\* lines 201-203: the next file; no metadata means continue
IdxGetMetadata ==
    /\ mode = "indexing" /\ pc = "loop" /\ i < Len(tif_files)
    /\ tif' = tif_files[i + 1]
    /\ i' = i + 1
    /\ meta' = GetMetadataFromTif(tif_files[i + 1])
    /\ pc' = IF meta' = None THEN "loop" ELSE "write"
    /\ UNCHANGED <<mode, tif_files, clock, exitCode, verified>>
    /\ UNCHANGED <<products, index, datasetDir, success_count, doc_dict, calls, summary, run>>
    /\ UNCHANGED browsingVars

\* lines 205-209: build the document and write it; the write is outside every
\* try, so an OSError leaves main
IdxWriteDoc ==
    /\ mode = "indexing" /\ pc = "write"
    /\ \E u \in 1..MaxUuid : doc_dict' = BuildEo3Dict(meta, tif.path, u, Now(clock))
    /\ clock' \in Later(clock)
    /\ \/ /\ datasetDir' = [p \in DOMAIN datasetDir \cup {YamlPath(meta)} |->
                               IF p = YamlPath(meta) THEN doc_dict' ELSE datasetDir[p]]
          /\ pc' = "link"
          /\ exitCode' = exitCode
       \/ /\ datasetDir' = datasetDir
          /\ pc' = "crashed"
          /\ exitCode' = 1
    /\ UNCHANGED <<mode, tif_files, i, tif, verified>>
    /\ UNCHANGED <<products, index, success_count, meta, calls, summary, run>>
    /\ UNCHANGED browsingVars

\* lines 211-217 and 231-232: Doc2Dataset; an err_msg (the product is not
\* registered) or an exception both end the turn
IdxLink ==
    /\ mode = "indexing" /\ pc = "link"
    /\ \/ pc' = IF doc_dict.product.name \in products THEN "update" ELSE "loop"
       \/ pc' = "loop"
    /\ UNCHANGED <<mode, tif_files, i, tif, clock, exitCode, verified>>
    /\ UNCHANGED indexingVars
    /\ UNCHANGED browsingVars

\* the record the index keeps of a dataset
Record(doc) == [id |-> doc.id, location |-> doc.location]

\* faulty variant: every exception of update falls through to the insert
IdxUpdate_AnyErrorInserts ==
    /\ mode = "indexing" /\ pc = "update"
    /\ \/ /\ \E r \in index : r.id = doc_dict.id
          /\ index' = index \cup {Record(doc_dict)}
          /\ success_count' = success_count + 1
          /\ calls' = Called("update:ok")
          /\ pc' = "loop"
       \/ /\ ~\E r \in index : r.id = doc_dict.id
          /\ calls' = Called("update:ValueError")
          /\ pc' = "add"
          /\ UNCHANGED <<index, success_count>>
       \/ /\ calls' = Called("update:error")
          /\ pc' = "add"
          /\ UNCHANGED <<index, success_count>>
    /\ UNCHANGED <<mode, tif_files, i, tif, clock, exitCode, verified>>
    /\ UNCHANGED <<products, datasetDir, meta, doc_dict, summary, run>>
    /\ UNCHANGED browsingVars

\* lines 219-223 and 231-232: index.datasets.update; ValueError when the index
\* holds no dataset of that id, any other exception ends the turn
IdxUpdate ==
    /\ mode = "indexing" /\ pc = "update"
    /\ \/ /\ \E r \in index : r.id = doc_dict.id
          /\ index' = index \cup {Record(doc_dict)}
          /\ success_count' = success_count + 1
          /\ calls' = Called("update:ok")
          /\ pc' = "loop"
       \/ /\ ~\E r \in index : r.id = doc_dict.id
          /\ calls' = Called("update:ValueError")
          /\ pc' = "add"
          /\ UNCHANGED <<index, success_count>>
       \/ /\ calls' = Called("update:error")
          /\ pc' = "loop"
          /\ UNCHANGED <<index, success_count>>
    /\ UNCHANGED <<mode, tif_files, i, tif, clock, exitCode, verified>>
    /\ UNCHANGED <<products, datasetDir, meta, doc_dict, summary, run>>
    /\ UNCHANGED browsingVars

\* lines 224-229: index.datasets.add; an exception is printed
IdxAdd ==
    /\ mode = "indexing" /\ pc = "add"
    /\ \/ /\ index' = index \cup {Record(doc_dict)}
          /\ success_count' = success_count + 1
          /\ calls' = Called("add:ok")
       \/ /\ calls' = Called("add:error")
          /\ UNCHANGED <<index, success_count>>
    /\ pc' = "loop"
    /\ UNCHANGED <<mode, tif_files, i, tif, clock, exitCode, verified>>
    /\ UNCHANGED <<products, datasetDir, meta, doc_dict, summary, run>>
    /\ UNCHANGED browsingVars

\* line 234: the summary after the loop
IdxSummary ==
    /\ mode = "indexing" /\ pc = "loop" /\ i = Len(tif_files)
    /\ summary' = <<success_count>>
    /\ pc' = "verify"
    /\ UNCHANGED <<mode, tif_files, i, tif, clock, exitCode, verified>>
    /\ UNCHANGED <<products, index, datasetDir, success_count, meta, doc_dict, calls, run>>
    /\ UNCHANGED browsingVars

\* lines 236-279: the read-back when something was indexed; main returns
IdxVerify ==
    /\ mode = "indexing" /\ pc = "verify"
    /\ verified' = (success_count > 0)
    /\ pc' = "done"
    /\ exitCode' = 0
    /\ UNCHANGED <<mode, tif_files, i, tif, clock>>
    /\ UNCHANGED indexingVars
    /\ UNCHANGED browsingVars

\* the script is started again over the same directory and the same index
IdxRerun ==
    /\ mode = "indexing" /\ pc = "done" /\ run < MaxRuns
    /\ run' = run + 1
    /\ pc' = "start"
    /\ i' = 0
    /\ tif' = None
    /\ exitCode' = -1
    /\ verified' = FALSE
    /\ success_count' = 0
    /\ meta' = None
    /\ doc_dict' = None
    /\ summary' = None
    /\ UNCHANGED <<mode, tif_files, clock, products, index, datasetDir, calls>>
    /\ UNCHANGED browsingVars

NextBrowsing ==
    \/ BrwCreate \/ BrwGlob \/ BrwFile \/ BrwUpdateExtent \/ BrwNormalize \/ BrwSave
    \/ BrwVerify

NextIndexing ==
    \/ IdxSetup \/ IdxGlob \/ IdxGetMetadata \/ IdxWriteDoc \/ IdxLink \/ IdxUpdate
    \/ IdxAdd \/ IdxSummary \/ IdxVerify

Next == NextBrowsing \/ NextIndexing

\* one run of either script
Spec == Init /\ [][Next]_vars

NextRerun == NextIndexing \/ IdxRerun

\* the indexing script run up to MaxRuns times over one directory and one index
InitRerun == Init /\ mode = "indexing"

SpecRerun == InitRerun /\ [][NextRerun]_vars


(***************************************************************************)
(* Vocabulary of the properties.                                           *)
(***************************************************************************)
FileId(f) == SplitExtStem(Basename(f.path))

Files == 1..Len(tif_files)

\* the datetimes the date-time tags of f hold in the form YYYY:MM:DD HH:MM:SS
ValidTagValues(f) ==
    {Strptime(f.tags[key], TagFormat).dt :
        key \in {k \in DOMAIN f.tags : Strptime(f.tags[k], TagFormat).ok}}

HasValidTag(f) == ValidTagValues(f) # {}

\* the '_'-token the filename rule names: third from last after 'preview',
\* else second from last
FilenameToken(f) ==
    LET parts == Split(FileId(f), "_")
        n == Len(parts)
        k == IF parts[n] = Preview THEN n - 2 ELSE n - 1
    IN  IF k >= 1 THEN <<parts[k]>> ELSE <<>>

HasValidFilenameTs(f) ==
    FilenameToken(f) # <<>> /\ Strptime(FilenameToken(f)[1], FilenameFormat).ok

Reprojects(f) == f.crs = CanonicalCrs \/ f.warp.ok

\* the items of the collection made from file f
ItemsOf(f) ==
    {n \in 1..Len(collection.items) :
        \/ collection.items[n].asset.href = f.path
        \/ collection.items[n].id = FileId(f)}

\* the dataset documents written for file f
DocsOf(f) ==
    {p \in DOMAIN datasetDir :
        datasetDir[p].location = AsUri(f.path) \/ datasetDir[p].label = FileId(f)}

\* nothing of file k reached the dataset directory or the index
NoIndexingOutput(k) ==
    /\ DocsOf(tif_files[k]) = {}
    /\ \A r \in 1..MaxRuns : calls[r][k] = <<>>
    /\ \A rec \in index : rec.location # AsUri(tif_files[k].path)

\* the files of run r for which an update or an insert succeeded
Written(r) ==
    {k \in Files : \E n \in DOMAIN calls[r][k] : calls[r][k][n] \in {"update:ok", "add:ok"}}

Terminated == pc \in {"done", "exit", "crashed"}

(***************************************************************************)
(* C1  Idempotence of indexing.                                            *)
(***************************************************************************)
\* C1: after a second run over the same files against an index that started
\* empty, every file written by the first run has exactly one record for its
\* location, and whatever the second run wrote for it was written by the
\* update, never by the insert.
C1_Idempotent ==
    (mode = "indexing" /\ run = 2 /\ pc = "done") =>
        \A k \in Written(1) :
            /\ Cardinality({rec \in index : rec.location = AsUri(tif_files[k].path)}) = 1
            /\ \A n \in DOMAIN calls[2][k] : calls[2][k][n] # "add:ok"

(***************************************************************************)
(* C2  Mode asymmetry of the timestamp fallback.                           *)
(***************************************************************************)
\* the rasters that open, have a spatial reference and carry no valid
\* timestamp, neither in a tag nor in the name
UndatedFiles ==
    {f \in {Pool[n] : n \in 1..Len(Pool)} :
        f.opens /\ f.crs # NoCrs /\ ~HasValidTag(f) /\ ~HasValidFilenameTs(f)}

Undated(f) == f \in UndatedFiles

\* file f has an item whose datetime is a reading of the wall clock
ClockItem(f) ==
    \E n \in ItemsOf(f) : \E c \in 0..clock :
        /\ collection.items[n].id = FileId(f)
        /\ collection.items[n].datetime = Now(c)

\* C2 as stated: an undated file with a spatial reference never reaches the
\* dataset directory or the index, and browsing always adds it with the
\* wall-clock time.
C2_ModeAsymmetry ==
    \A k \in Files :
        Undated(tif_files[k]) =>
            /\ mode = "indexing" => NoIndexingOutput(k)
            /\ (mode = "browsing" /\ k <= i) => ClockItem(tif_files[k])

\* C2 amended: as C2, the browsing half for the files whose footprint
\* reprojects to EPSG:4326 without error.
C2_ModeAsymmetryReprojected ==
    \A k \in Files :
        Undated(tif_files[k]) =>
            /\ mode = "indexing" => NoIndexingOutput(k)
            /\ (mode = "browsing" /\ k <= i /\ Reprojects(tif_files[k]))
                   => ClockItem(tif_files[k])

\* browsing finished over an undated file that was added with the clock time
\* and an undated file whose reprojection failed
C2_Witness ==
    /\ mode = "browsing" /\ pc = "done"
    /\ \E k \in Files : Undated(tif_files[k]) /\ ClockItem(tif_files[k])
    /\ \E k \in Files : Undated(tif_files[k]) /\ ~Reprojects(tif_files[k])
                          /\ ItemsOf(tif_files[k]) = {}

(***************************************************************************)
(* C3  Per-file failure isolation.                                         *)
(***************************************************************************)
\* C3: with a non-empty input no per-file failure ends the run: the run never
\* dies on an exception, and when it ends every file was taken and the
\* closing steps (summary; extent, save) were reached.
C3_FailureIsolation ==
    (tif_files # <<>> /\ Terminated) =>
        /\ pc = "done"
        /\ i = Len(tif_files)
        /\ mode = "indexing" => summary # None
        /\ mode = "browsing" => saved

(***************************************************************************)
(* C4  Empty input is fatal in both modes.                                 *)
(***************************************************************************)
\* C4: with no *.tif file the run ends with a non-zero exit status, takes no
\* file and performs no later step.
C4_EmptyInputFatal ==
    (tif_files = <<>> /\ Terminated) =>
        /\ exitCode > 0
        /\ i = 0
        /\ ~saved /\ ~normalized /\ ~verified
        /\ extentUpdates = 0
        /\ summary = None

(***************************************************************************)
(* C5  The filename scenario.                                              *)
(***************************************************************************)
\* X_GEC_HH_20230101000000.tif
ScenarioName == Name("X", GEC, HH, StampA)

\* X_GEC_HH_20230101000000_20230101000010.tif
ScenarioNameSecondFromLast == Name("X", GEC, HH, StampA \o Us \o StampEnd)

\* P_GEC_HH_20230101000000_20230101000010_preview.tif
ScenarioNamePreview == Name("P", GEC, HH, StampA \o Us \o StampEnd \o Us \o Preview)

\* 2023-01-01T00:00:00
IsoScenario == <<"2", "0", "2", "3", "-", "0", "1", "-", "0", "1", "T",
                 "0", "0", ":", "0", "0", ":", "0", "0">>

\* get_metadata_from_tif was called on a file of that name which opens, has a
\* spatial reference and carries no date-time tag
ScenarioCall(name) ==
    /\ mode = "indexing" /\ tif # None
    /\ Basename(tif.path) = name
    /\ tif.opens /\ tif.crs # NoCrs /\ DOMAIN tif.tags = {}

ScenarioResult ==
    /\ meta # None
    /\ meta.product_name = "capella_gec_hh"
    /\ meta.band_name = "hh"
    /\ Isoformat(meta.datetime) = IsoScenario

C6_NullCrsExcluded ==
    \A k \in Files :
        tif_files[k].crs = NoCrs =>
            /\ (mode = "browsing" /\ collection # None) => ItemsOf(tif_files[k]) = {}
            /\ mode = "indexing" => NoIndexingOutput(k)
            /\ (mode = "indexing" /\ tif = tif_files[k]) => meta = None

\* an indexing run ended having taken a raster without spatial reference and
\* having written another file
C6_Witness ==
    /\ mode = "indexing" /\ pc = "done" /\ success_count = 1
    /\ \E k \in Files : tif_files[k].crs = NoCrs /\ HasValidTag(tif_files[k])

(***************************************************************************)
(* C7  Deterministic fallback order.                                       *)
(***************************************************************************)
\* the rasters with a valid date-time tag and a valid filename timestamp
TwiceDatedFiles ==
    {f \in {Pool[n] : n \in 1..Len(Pool)} : HasValidTag(f) /\ HasValidFilenameTs(f)}

\* C7: a file with a valid date-time tag (under either key) and a valid
\* filename timestamp resolves to a tag-derived datetime in both scripts.
C7_TagWins ==
    \A k \in Files :
        tif_files[k] \in TwiceDatedFiles =>
            /\ (mode = "browsing" /\ collection # None) =>
                   \A n \in ItemsOf(tif_files[k]) :
                       collection.items[n].datetime \in ValidTagValues(tif_files[k])
            /\ (mode = "indexing" /\ tif = tif_files[k] /\ meta # None) =>
                   meta.datetime \in ValidTagValues(tif_files[k])

(***************************************************************************)
(* C8  Update-then-insert protocol.                                        *)
(***************************************************************************)
AllowedCalls ==
    {<<>>,
     <<"update:ok">>,
     <<"update:error">>,
     <<"update:ValueError", "add:ok">>,
     <<"update:ValueError", "add:error">>}

\* C8: per file the update comes first; the insert follows only an update
\* that found no record; at most one write succeeds; success_count counts
\* exactly the files written and the summary prints it.
C8_UpdateThenInsert ==
    mode = "indexing" =>
        /\ \A r \in 1..MaxRuns : \A k \in Files :
               \/ calls[r][k] \in AllowedCalls
               \/ pc = "add" /\ r = run /\ k = i
        /\ pc = "update" => calls[run][i] = <<>>
        /\ pc = "add" => /\ calls[run][i] = <<"update:ValueError">>
                         /\ \A rec \in index : rec.id # doc_dict.id
        /\ success_count = Cardinality(Written(run))
        /\ success_count <= i
        /\ summary # None => summary = <<Cardinality(Written(run))>>

\* the summary was printed after one file was inserted and the insert of the
\* other failed
C8_Witness ==
    /\ mode = "indexing" /\ summary = <<1>> /\ Len(tif_files) = 2
    /\ calls[1][1] = <<"update:ValueError", "add:ok">>
    /\ calls[1][2] = <<"update:ValueError", "add:error">>

(***************************************************************************)
(* C9  The collection extent is computed once, at the end.                 *)
(***************************************************************************)
\* C9: the extent is the placeholder until the loop is over, is recomputed
\* once, before normalize and save, and is then the union box and the
\* [min, max] interval of the items, each of which comes from a file that
\* was not skipped.
C9_ExtentOnceAtEnd ==
    (mode = "browsing" /\ collection # None) =>
        LET items == collection.items
            ext == collection.extent
            N == 1..Len(items)
        IN  /\ extentUpdates <= 1
            /\ pc \in {"glob", "loop", "exit"} =>
                   /\ extentUpdates = 0
                   /\ ext.bboxes = <<0, 0, 0, 0>>
                   /\ \E c1, c2 \in 0..clock : ext.interval = <<Now(c1), Now(c2)>>
            /\ pc \in {"normalize", "save", "verify", "done"} =>
                   extentUpdates = 1 /\ i = Len(tif_files)
            /\ (normalized \/ saved) => extentUpdates = 1
            /\ (extentUpdates = 1 /\ items # <<>>) =>
                   /\ \A n \in N :
                          /\ ext.bboxes[1] <= items[n].bbox[1]
                          /\ ext.bboxes[2] <= items[n].bbox[2]
                          /\ ext.bboxes[3] >= items[n].bbox[3]
                          /\ ext.bboxes[4] >= items[n].bbox[4]
                          /\ DtLeq(ext.interval[1], items[n].datetime)
                          /\ DtLeq(items[n].datetime, ext.interval[2])
                   /\ \A c \in 1..4 : \E n \in N : ext.bboxes[c] = items[n].bbox[c]
                   /\ \E n \in N : ext.interval[1] = items[n].datetime
                   /\ \E n \in N : ext.interval[2] = items[n].datetime
            /\ \A n \in N : \E k \in 1..i :
                   /\ tif_files[k].path = items[n].asset.href
                   /\ tif_files[k].opens /\ tif_files[k].crs # NoCrs
                   /\ Reprojects(tif_files[k])
                   /\ items[n].bbox = IF tif_files[k].crs = CanonicalCrs
                                      THEN tif_files[k].bounds
                                      ELSE tif_files[k].warp.bounds

\* the catalog was saved with two items whose union is neither item's box
\* and whose datetimes differ
C9_Witness ==
    /\ mode = "browsing" /\ pc = "done" /\ saved
    /\ Len(collection.items) = 2
    /\ collection.extent.bboxes # collection.items[1].bbox
    /\ collection.extent.bboxes # collection.items[2].bbox
    /\ collection.extent.interval[1] # collection.extent.interval[2]

(***************************************************************************)
(* C10  Grid reference consistency.                                        *)
(***************************************************************************)
\* document d declares one reference, and a grid transform taken unchanged
\* from a source is in that source's reference
GridConsistent(d) ==
    /\ d.crs = d.grids.crs
    /\ \A k \in Files :
           (d.location = AsUri(tif_files[k].path)
            /\ d.grids.transform = tif_files[k].transform
            /\ d.grids.shape = tif_files[k].shape)
               => tif_files[k].crs = d.grids.crs

\* C10: every document built declares, at the root and in the grid, the
\* reference in which its grid shape and transform are expressed.
C10_GridReferenceConsistent ==
    mode = "indexing" =>
        /\ doc_dict # None => GridConsistent(doc_dict)
        /\ \A p \in DOMAIN datasetDir : GridConsistent(datasetDir[p])

====
